---- MODULE Spec2Model ----
(***************************************************************************)
(* Model of the snake game engine of src/src/components/SnakeGame.tsx.     *)
(*                                                                         *)
(* The component keeps its engine state in two React state hooks           *)
(* (gameState, gameStarted).  Handlers read two kinds of values:           *)
(*   - prev.*        : the live state a functional updater is applied to;  *)
(*   - gameState.* / gameStarted read directly in a callback: the values   *)
(*     captured by the callback when it was created by the last committed  *)
(*     render (variable closure).                                          *)
(* Updates made from a keyboard or click handler are rendered and their    *)
(* effects re-run before the next event; an update made from the interval  *)
(* callback is rendered in a later task (action Render), so until then     *)
(* the registered interval callback and key listener are the ones of the   *)
(* previous render.                                                        *)
(*                                                                         *)
(* A GameRecord is modelled by its score and level; its date and           *)
(* difficulty label are never read back by the engine.                     *)
(***************************************************************************)
EXTENDS Integers, Sequences, FiniteSets, TLC

\* Grid dimension (20 in the source), scaled down for model checking.
GRID_SIZE == 3

\* Number of finished games after which no further game is started.
MaxGames == 2

\* Number of saveGameData calls of one game the log emitted tells apart.
MaxEmitted == 2

\* Retained history length: .slice(0, 10)
HISTORY_CAP == 10

\* Score per food: newScore += 10
SCORE_STEP == 10

\* Level divisor: Math.floor(newScore / 100) + 1
LEVEL_DIV == 100

VARIABLES
    snake,        \* gameState.snake: sequence of cells, head first
    food,         \* gameState.food
    direction,    \* gameState.direction
    gameOver,     \* gameState.gameOver
    paused,       \* gameState.paused
    score,        \* gameState.score
    level,        \* gameState.level
    highScore,    \* gameState.highScore
    gameHistory,  \* gameState.gameHistory, most recent first
    gameStarted,  \* the gameStarted hook
    closure,      \* values captured by the callbacks of the last committed render
    emitted,      \* GameRecords handed to storage since the last start or reset
                  \* (a log of the saveGameData calls, first call first)
    gridSize,     \* GRID_SIZE of the build: set in the initial state, never changed
    moved,        \* direction the last gameLoop update of this game moved the
                  \* head in ("NONE" before the first one)
    hung          \* TRUE once generateFood's do-while can never exit

vars == <<snake, food, direction, gameOver, paused, score, level, highScore,
          gameHistory, gameStarted, closure, emitted, gridSize, moved, hung>>

Directions == {"UP", "DOWN", "LEFT", "RIGHT"}

Coord == 0 .. (gridSize - 1)

Cells == [x : Coord, y : Coord]

Cell(cx, cy) == [x |-> cx, y |-> cy]

\* INITIAL_SNAKE = [{10,10}] and INITIAL_FOOD = {15,15} on the 20-grid:
\* the centre cell and the cell three quarters along the diagonal.
INITIAL_SNAKE == << Cell(gridSize \div 2, gridSize \div 2) >>

INITIAL_FOOD == Cell((3 * gridSize) \div 4, (3 * gridSize) \div 4)

Max(a, b) == IF a >= b THEN a ELSE b

\* The reversal each arrow key is tested against.
Opposite(d) ==
    CASE d = "UP" -> "DOWN"
      [] d = "DOWN" -> "UP"
      [] d = "LEFT" -> "RIGHT"
      [] d = "RIGHT" -> "LEFT"

\* Mutant: the head leaving the grid on one side re-enters on the other.
MoveHeadWrapping(h, d) ==
    CASE d = "UP" -> Cell(h.x, (h.y - 1) % gridSize)
      [] d = "DOWN" -> Cell(h.x, (h.y + 1) % gridSize)
      [] d = "LEFT" -> Cell((h.x - 1) % gridSize, h.y)
      [] d = "RIGHT" -> Cell((h.x + 1) % gridSize, h.y)

\* switch (prev.direction): the head shifted one unit.
MoveHead(h, d) ==
    CASE d = "UP" -> Cell(h.x, h.y - 1)
      [] d = "DOWN" -> Cell(h.x, h.y + 1)
      [] d = "LEFT" -> Cell(h.x - 1, h.y)
      [] d = "RIGHT" -> Cell(h.x + 1, h.y)

\* Mutant: the upper bound tests are off by one (> instead of >=).
WallCollisionOffByOne(h) ==
    h.x < 0 \/ h.x > gridSize \/ h.y < 0 \/ h.y > gridSize

\* head.x < 0 || head.x >= GRID_SIZE || head.y < 0 || head.y >= GRID_SIZE
WallCollision(h) ==
    h.x < 0 \/ h.x >= gridSize \/ h.y < 0 \/ h.y >= gridSize

\* Mutant: the collision test compares the new head with the old head only.
SelfCollisionHeadOnly(s, h) == s[1] = h

\* Mutant: the collision test leaves out the tail, which this tick would vacate.
SelfCollisionSkipTail(s, h) == \E i \in 1 .. (Len(s) - 1) : s[i] = h

\* newSnake.some(segment => segment = head), on the body before any move
SelfCollision(s, h) == \E i \in 1 .. Len(s) : s[i] = h

\* Mutant: the sampling is checked against the body without its first cell
\* (the snake before the new head was inserted).
generateFoodIgnoringHead(s) ==
    { c \in Cells : ~ \E i \in 2 .. Len(s) : s[i] = c }

\* The cells generateFood's rejection sampling can return for this snake.
generateFood(s) == { c \in Cells : ~ \E i \in 1 .. Len(s) : s[i] = c }

\* newSnake.unshift(head)
Unshift(s, h) == <<h>> \o s

\* Mutant: the tail is not removed.
PopNothing(s) == s

\* newSnake.pop()
Pop(s) == SubSeq(s, 1, Len(s) - 1)

\* Mutant: the score is raised by one per food.
NewScoreByOne(sc) == sc + 1

\* newScore += 10
NewScore(sc) == sc + SCORE_STEP

\* Mutant: the level is rounded up instead of down.
LevelOfCeil(sc) == ((sc + LEVEL_DIV - 1) \div LEVEL_DIV) + 1

\* Math.floor(newScore / 100) + 1
LevelOf(sc) == (sc \div LEVEL_DIV) + 1

\* Mutant: the new record is put last, so that the slice keeps the oldest.
UpdatedHistoryOldestFirst(rec, hist) ==
    LET all == hist \o <<rec>>
    IN  SubSeq(all, 1, IF Len(all) < HISTORY_CAP THEN Len(all) ELSE HISTORY_CAP)

\* [newRecord, ...gameState.gameHistory].slice(0, 10)
UpdatedHistory(rec, hist) ==
    LET all == <<rec>> \o hist
    IN  SubSeq(all, 1, IF Len(all) < HISTORY_CAP THEN Len(all) ELSE HISTORY_CAP)

\* The log of emitted records, which stops growing at MaxEmitted entries.
Logged(log, rec) == IF Len(log) < MaxEmitted THEN Append(log, rec) ELSE log

\* What a render captures for the callbacks it creates.
Captured ==
    [direction |-> direction, gameOver |-> gameOver, paused |-> paused,
     gameStarted |-> gameStarted, highScore |-> highScore,
     gameHistory |-> gameHistory]

\* The state after construction, on a grid of dimension n.
InitOnGrid(n) ==
    /\ gridSize = n
    /\ snake = INITIAL_SNAKE
    /\ food = INITIAL_FOOD
    /\ direction = "RIGHT"
    /\ gameOver = FALSE
    /\ paused = FALSE
    /\ score = 0
    /\ level = 1
    /\ highScore = 0
    /\ gameHistory = << >>
    /\ gameStarted = FALSE
    /\ closure = [direction |-> "RIGHT", gameOver |-> FALSE, paused |-> FALSE,
                  gameStarted |-> FALSE, highScore |-> 0, gameHistory |-> << >>]
    /\ emitted = << >>
    /\ moved = "NONE"
    /\ hung = FALSE

Init == InitOnGrid(GRID_SIZE)

\* A keyboard or click handler's update is committed, and the callbacks
\* re-created, before the next event.
Committed ==
    closure' = [direction |-> direction', gameOver |-> gameOver',
                paused |-> paused', gameStarted |-> gameStarted',
                highScore |-> highScore', gameHistory |-> gameHistory']

\* saveGameData(prev.score, prev.level): reads highScore and gameHistory from
\* the callback's closure, writes both to storage and to the state.
saveGameData(sc, lv) ==
    /\ highScore' = Max(closure.highScore, sc)
    /\ gameHistory' = UpdatedHistory([score |-> sc, level |-> lv], closure.gameHistory)
    /\ emitted' = Logged(emitted, [score |-> sc, level |-> lv])

\* The functional updater of gameLoop, applied to the live state.
gameLoopUpdate ==
    LET head == MoveHead(snake[1], direction)
        newSnake == Unshift(snake, head)
    IN  /\ moved' = direction
        /\ UNCHANGED gridSize
        /\ IF WallCollision(head) \/ SelfCollision(snake, head)
           THEN /\ saveGameData(score, level)
                /\ gameOver' = TRUE
                /\ UNCHANGED <<snake, food, direction, paused, score, level,
                               gameStarted, closure, hung>>
           ELSE IF head = food
           THEN IF generateFood(newSnake) = {}
                THEN /\ hung' = TRUE
                     /\ UNCHANGED <<snake, food, direction, gameOver, paused,
                                    score, level, highScore, gameHistory,
                                    gameStarted, closure, emitted>>
                ELSE /\ food' \in generateFood(newSnake)
                     /\ snake' = newSnake
                     /\ score' = NewScore(score)
                     /\ level' = LevelOf(NewScore(score))
                     /\ UNCHANGED <<direction, gameOver, paused, highScore,
                                    gameHistory, gameStarted, closure, emitted,
                                    hung>>
           ELSE /\ snake' = Pop(newSnake)
                /\ UNCHANGED <<food, direction, gameOver, paused, score, level,
                               highScore, gameHistory, gameStarted, closure,
                               emitted, hung>>

\* gameLoop: the guard reads the captured gameState, the update the live one.
gameLoop ==
    IF closure.gameOver \/ closure.paused
    THEN UNCHANGED vars
    ELSE gameLoopUpdate

\* The interval effect keeps gameLoop registered while the committed render
\* shows a started game that is neither over nor paused.
IntervalActive ==
    closure.gameStarted /\ ~closure.gameOver /\ ~closure.paused

\* Mutant: the interval is kept while the game is paused and gameLoop does
\* not test paused either.
TickIgnoringPause ==
    /\ ~hung
    /\ closure.gameStarted
    /\ ~closure.gameOver
    /\ gameLoopUpdate

\* The interval fires.
Tick ==
    /\ ~hung
    /\ IntervalActive
    /\ gameLoop

\* The render scheduled by an interval-driven update commits and its effects
\* re-create the interval callback and the key listener.
Render ==
    /\ ~hung
    /\ closure # Captured
    /\ closure' = Captured
    /\ UNCHANGED <<snake, food, direction, gameOver, paused, score, level,
                   highScore, gameHistory, gameStarted, emitted, gridSize, moved,
                   hung>>

\* Mutant: the arrow keys set the direction without the reversal test.
requestDirectionUnguarded(d) ==
    /\ ~hung
    /\ IF ~closure.gameStarted \/ closure.gameOver
       THEN UNCHANGED vars
       ELSE /\ direction' = d
            /\ UNCHANGED <<snake, food, gameOver, paused, score, level,
                           highScore, gameHistory, gameStarted, emitted,
                           gridSize, moved, hung>>
            /\ Committed

\* handleKeyPress for an arrow key asking for direction d.
requestDirection(d) ==
    /\ ~hung
    /\ IF ~closure.gameStarted \/ closure.gameOver
       THEN UNCHANGED vars
       ELSE IF closure.direction # Opposite(d)
       THEN /\ direction' = d
            /\ UNCHANGED <<snake, food, gameOver, paused, score, level,
                           highScore, gameHistory, gameStarted, emitted,
                           gridSize, moved, hung>>
            /\ Committed
       ELSE UNCHANGED vars

\* togglePause, from the space key or the pause button.
togglePause ==
    /\ ~hung
    /\ IF closure.gameStarted /\ ~closure.gameOver
       THEN /\ paused' = ~paused
            /\ UNCHANGED <<snake, food, direction, gameOver, score, level,
                           highScore, gameHistory, gameStarted, emitted,
                           gridSize, moved, hung>>
            /\ Committed
       ELSE UNCHANGED vars

\* startGame: the start button is rendered only while gameStarted is false.
\* No game is started once the history holds maxGames records.
startGameWithin(maxGames) ==
    /\ ~hung
    /\ ~closure.gameStarted
    /\ Len(gameHistory) < maxGames
    /\ snake' = INITIAL_SNAKE
    /\ food' \in generateFood(INITIAL_SNAKE)
    /\ direction' = "RIGHT"
    /\ gameOver' = FALSE
    /\ paused' = FALSE
    /\ score' = 0
    /\ level' = 1
    /\ highScore' = closure.highScore
    /\ gameHistory' = closure.gameHistory
    /\ gameStarted' = TRUE
    /\ emitted' = << >>
    /\ moved' = "NONE"
    /\ UNCHANGED <<gridSize, hung>>
    /\ Committed

\* startGame in a session of at most MaxGames finished games.
startGame == startGameWithin(MaxGames)

\* startGame with no limit on the number of games: the history never holds
\* more than HISTORY_CAP records.
startGameAgain == startGameWithin(HISTORY_CAP + 1)

\* Mutant: the reset also clears the high score and the history.
resetGameClearingHistory ==
    /\ ~hung
    /\ gameStarted' = FALSE
    /\ snake' = INITIAL_SNAKE
    /\ food' = INITIAL_FOOD
    /\ direction' = "RIGHT"
    /\ gameOver' = FALSE
    /\ paused' = FALSE
    /\ score' = 0
    /\ level' = 1
    /\ highScore' = 0
    /\ gameHistory' = << >>
    /\ emitted' = << >>
    /\ moved' = "NONE"
    /\ UNCHANGED <<gridSize, hung>>
    /\ Committed

\* resetGame, from the reset button or the game-over overlay.
resetGame ==
    /\ ~hung
    /\ gameStarted' = FALSE
    /\ snake' = INITIAL_SNAKE
    /\ food' = INITIAL_FOOD
    /\ direction' = "RIGHT"
    /\ gameOver' = FALSE
    /\ paused' = FALSE
    /\ score' = 0
    /\ level' = 1
    /\ emitted' = << >>
    /\ moved' = "NONE"
    /\ UNCHANGED <<highScore, gameHistory, gridSize, hung>>
    /\ Committed

\* generateFood's do-while draws another occupied cell: the loop goes on.
generateFoodSpin ==
    /\ hung
    /\ UNCHANGED vars

KeyPress == \E d \in Directions : requestDirection(d)

Next ==
    \/ Tick
    \/ Render
    \/ KeyPress
    \/ togglePause
    \/ startGame
    \/ resetGame
    \/ generateFoodSpin

Spec == Init /\ [][Next]_vars

\* Any number of games played without keyboard input: start, let the
\* interval run, reset, start again.
NextHistory ==
    \/ Tick
    \/ Render
    \/ startGameAgain
    \/ resetGame

SpecHistory == Init /\ [][NextHistory]_vars

\* One game on the next larger grid, on which the score can pass LEVEL_DIV:
\* start, the interval, the arrow keys.
NextOneGame ==
    \/ Tick
    \/ Render
    \/ KeyPress
    \/ startGame
    \/ generateFoodSpin

\* One game in which the interval, once registered, keeps firing:
\* setInterval calls gameLoop every period until the effect clears it.
\* The effect registers the interval anew after every commit, so the
\* assumption is that commits do not keep arriving faster than the period.
SpecOneGameFair == Init /\ [][NextOneGame]_vars /\ WF_vars(Tick)

SpecLargeGrid == InitOnGrid(GRID_SIZE + 1) /\ [][NextOneGame]_vars

(***************************************************************************)
(* Vocabulary of the properties, stated independently of the operators     *)
(* that model the code.                                                    *)
(***************************************************************************)

\* The lifecycle state the engine is in.
Lifecycle ==
    IF gameOver THEN "GameOver"
    ELSE IF ~gameStarted THEN "Idle"
    ELSE IF paused THEN "Paused"
    ELSE "Running"

NoDuplicates(s) == \A i, j \in 1 .. Len(s) : i # j => s[i] # s[j]

Reversal(d, e) ==
    \/ d = "UP" /\ e = "DOWN"
    \/ d = "DOWN" /\ e = "UP"
    \/ d = "LEFT" /\ e = "RIGHT"
    \/ d = "RIGHT" /\ e = "LEFT"

\* The cell one step from c in direction d ("NONE": c itself).
Step(c, d) ==
    [x |-> c.x + (IF d = "RIGHT" THEN 1 ELSE IF d = "LEFT" THEN -1 ELSE 0),
     y |-> c.y + (IF d = "DOWN" THEN 1 ELSE IF d = "UP" THEN -1 ELSE 0)]

\* The head the next tick proposes.
ProposedHead == Step(snake[1], direction)

OnSnake(c) == \E i \in 1 .. Len(snake) : snake[i] = c

\* C1: while the game is not over the snake holds no two equal cells.
C1_NoDuplicateCells == ~gameOver => NoDuplicates(snake)

\* C1 witness: a running snake long enough to run into itself, after a tick.
C1_Witness ==
    /\ Lifecycle = "Running"
    /\ moved # "NONE"
    /\ Len(snake) >= 5
    /\ \E i \in 4 .. Len(snake) : Step(snake[1], "UP") = snake[i]
                                  \/ Step(snake[1], "DOWN") = snake[i]
                                  \/ Step(snake[1], "LEFT") = snake[i]
                                  \/ Step(snake[1], "RIGHT") = snake[i]

\* C2: in every state (after start, after reset, after every tick that
\* returns) the food cell is not a cell of the snake.
C2_FoodNotOnSnake == ~OnSnake(food)

\* C2 witness: a growing tick has placed food next to a snake of three cells.
C2_Witness ==
    /\ Lifecycle = "Running"
    /\ Len(snake) >= 3
    /\ score = SCORE_STEP * (Len(snake) - 1)
    /\ moved # "NONE"
    /\ food = Step(snake[1], moved)

\* C3: a tick never moves in the direction opposite to the one the previous
\* tick of the same game moved in, whatever was requested in between.
C3_NoReversalBetweenTicks ==
    [][(moved # "NONE" /\ moved' # "NONE") => ~Reversal(moved', moved)]_vars

\* C4: a request for the direction opposite to the current one changes no
\* state, and a tick that moves the snake moves its head one cell in the
\* current direction, which the tick leaves as it is.
C4_ReversalIgnored ==
    [][/\ \A d \in Directions :
            (Reversal(d, direction) /\ requestDirection(d)) => UNCHANGED vars
       /\ (Tick /\ snake' # snake)
             => (snake'[1] = ProposedHead /\ direction' = direction)]_vars

\* C4 witness: a started game whose snake of two cells has just moved in the
\* current direction, so that the opposite key asks for a reversal.
C4_Witness ==
    /\ Lifecycle = "Running"
    /\ closure = Captured
    /\ Len(snake) >= 2
    /\ moved = direction
    /\ snake[2] = Step(snake[1], Opposite(direction))

\* C5: food placement never loops forever: a tick that fills the grid returns.
C5_FoodPlacementTerminates == ~hung

\* C6: a tick in Running whose proposed head is a cell of the current snake,
\* the tail included, ends the game and leaves snake, food, score and level
\* as they were.
C6_SelfCollisionEndsGame ==
    [][(Lifecycle = "Running" /\ Tick /\ OnSnake(ProposedHead))
          => (gameOver' /\ UNCHANGED <<snake, food, score, level>>)]_vars

\* C6 witness: the game ended by a move onto the tail cell.
C6_Witness ==
    /\ gameOver
    /\ Len(emitted) = 1
    /\ moved = direction
    /\ Len(snake) >= 4
    /\ ProposedHead = snake[Len(snake)]

\* C7: a tick in Running whose proposed head is outside the grid ends the
\* game, leaves the snake where it was and emits exactly one record, which
\* carries the score and level held before the collision.
C7_WallCollisionEndsGame ==
    [][(Lifecycle = "Running" /\ Tick /\ ProposedHead \notin Cells)
          => /\ gameOver'
             /\ snake' = snake
             /\ emitted' = << [score |-> score, level |-> level] >>]_vars

\* C7 witness: a game with a positive score ended at a wall, one record out.
C7_Witness ==
    /\ gameOver
    /\ moved = direction
    /\ ProposedHead \notin Cells
    /\ score >= 2 * SCORE_STEP
    /\ emitted = << [score |-> score, level |-> level] >>

\* C8: a tick that returns without a collision and moves the head onto the
\* food inserts the new head and keeps the tail (length + 1) and adds 10 to
\* the score; any other tick without a collision inserts the new head,
\* removes the tail and leaves length, score, level and food unchanged.
C8_GrowOrMove ==
    [][(Tick /\ ~hung' /\ ProposedHead \in Cells /\ ~OnSnake(ProposedHead))
          => IF ProposedHead = food
             THEN /\ snake' = <<ProposedHead>> \o snake
                  /\ Len(snake') = Len(snake) + 1
                  /\ score' = score + 10
             ELSE /\ snake' = <<ProposedHead>> \o SubSeq(snake, 1, Len(snake) - 1)
                  /\ Len(snake') = Len(snake)
                  /\ UNCHANGED <<score, level, food>>]_vars

\* C8 witness: a snake that has grown twice and is about to move without
\* growing or colliding.
C8_Witness ==
    /\ Lifecycle = "Running"
    /\ Len(snake) = 3
    /\ score = 20
    /\ moved # "NONE"
    /\ ProposedHead \in Cells
    /\ ~OnSnake(ProposedHead)
    /\ ProposedHead # food

\* C9: exactly one record has been emitted when the game is over and none
\* while it is not: nothing that runs after the game is over emits another.
C9_OneRecordPerGameOver ==
    IF gameOver THEN Len(emitted) = 1 ELSE Len(emitted) = 0

\* C10: in GameOver every step other than a reset leaves snake, food,
\* direction, score, level and the lifecycle state unchanged.
C10_GameOverTerminal ==
    [][gameOver => \/ resetGame
                   \/ /\ UNCHANGED <<snake, food, direction, score, level>>
                      /\ Lifecycle' = "GameOver"]_vars

\* C11: while the game is Paused a tick changes nothing and emits no record;
\* snake, food, score, level and the emitted records stay as they are until a
\* reset or a resume.
C11_TickWhilePausedNoOp ==
    [][Lifecycle = "Paused"
         => /\ Tick => UNCHANGED vars
            /\ resetGame \/ UNCHANGED <<snake, food, score, level, emitted,
                                        gameHistory>>]_vars

\* C11 witness: a paused game whose snake a tick would move.
C11_Witness ==
    /\ Lifecycle = "Paused"
    /\ Len(snake) >= 2
    /\ moved # "NONE"
    /\ ProposedHead \in Cells
    /\ ~OnSnake(ProposedHead)

\* C12: a reset, from any lifecycle state, yields Idle with the one-cell
\* initial snake, the initial food, direction RIGHT, score 0, level 1, not
\* paused and not over, and leaves the high score and the history unchanged.
C12_ResetRestoresInitial ==
    [][resetGame
         => /\ Lifecycle' = "Idle"
            /\ Len(snake') = 1
            /\ snake' = INITIAL_SNAKE
            /\ food' = INITIAL_FOOD
            /\ direction' = "RIGHT"
            /\ score' = 0
            /\ level' = 1
            /\ ~paused'
            /\ ~gameOver'
            /\ UNCHANGED <<highScore, gameHistory>>]_vars

\* C12 witness: Idle after the reset of a finished game that scored.
C12_Witness ==
    /\ Lifecycle = "Idle"
    /\ snake = INITIAL_SNAKE
    /\ score = 0
    /\ Len(gameHistory) >= 1
    /\ highScore >= 10
    /\ gameHistory[1].score >= 10

\* C13: togglePause changes only the lifecycle state: Running becomes Paused
\* and Paused becomes Running with every engine field but paused unchanged
\* (so two calls in a row restore the state), and in Idle and GameOver it
\* changes nothing.
C13_TogglePauseOnlyLifecycle ==
    [][togglePause
         => IF Lifecycle \in {"Running", "Paused"}
            THEN /\ Lifecycle' = (IF Lifecycle = "Running" THEN "Paused"
                                                          ELSE "Running")
                 /\ paused' = ~paused
                 /\ closure' = [closure EXCEPT !.paused = ~paused]
                 /\ UNCHANGED <<snake, food, direction, gameOver, score, level,
                                highScore, gameHistory, gameStarted, emitted,
                                gridSize, moved, hung>>
            ELSE UNCHANGED vars]_vars

\* C15: in every reachable state the score is a non-negative multiple of 10.
C15_ScoreMultipleOfTen == score >= 0 /\ score % 10 = 0

\* C15 witness: a game that has scored three times.
C15_Witness == score = 30 /\ Len(snake) = 4 /\ moved # "NONE"

\* C17: a tick applied to a state that is already Paused or GameOver (the
\* interval callback of the previous render firing once more) does not move
\* the snake, change the score or emit a record.
C17_StaleTickDoesNotAct ==
    [][(Tick /\ (gameOver \/ paused))
         => UNCHANGED <<snake, score, emitted>>]_vars

\* C18: in every reachable state the snake length is score / 10 + 1.
C18_LengthTracksScore == Len(snake) = (score \div 10) + 1

\* C18 witness: a snake of four cells in a game that has moved on after its
\* third food.
C18_Witness ==
    /\ Len(snake) = 4
    /\ score = 30
    /\ moved # "NONE"
    /\ food # Step(snake[1], moved)
    /\ Lifecycle = "Running"

\* C19: in every reachable state, GameOver included, every snake cell and the
\* food cell lie inside the grid.
C19_InsideGrid ==
    /\ \A i \in 1 .. Len(snake) :
          snake[i].x >= 0 /\ snake[i].x < gridSize
          /\ snake[i].y >= 0 /\ snake[i].y < gridSize
    /\ food.x >= 0 /\ food.x < gridSize
    /\ food.y >= 0 /\ food.y < gridSize
    /\ Len(snake) >= 1

\* C19 witness: a game ended at a wall by a snake of three cells, whose
\* proposed head was outside the grid.
C19_Witness ==
    /\ gameOver
    /\ Len(emitted) = 1
    /\ moved = direction
    /\ Len(snake) >= 3
    /\ ProposedHead \notin Cells

\* C16: the retained history never holds more than 10 records, and the tick
\* that ends a game puts that game's record first and keeps the earlier
\* records behind it in their order, dropping the oldest when it would be the
\* eleventh.
C16_HistoryCappedRecentFirst ==
    [][/\ Len(gameHistory') <= 10
       /\ (~gameOver /\ gameOver')
            => /\ gameHistory'[1] = [score |-> score, level |-> level]
               /\ Len(gameHistory') =
                     (IF Len(gameHistory) < 10 THEN Len(gameHistory) + 1 ELSE 10)
               /\ \A i \in 2 .. Len(gameHistory') :
                     gameHistory'[i] = gameHistory[i - 1]]_vars

\* C16 witness: a full history of ten records of different scores, the game
\* that just ended first.
C16_Witness ==
    /\ gameOver
    /\ Len(gameHistory) = 10
    /\ emitted = << gameHistory[1] >>
    /\ gameHistory[1].score = 10
    /\ gameHistory[2].score = 0
    /\ gameHistory[10].score = 10

\* C14: in every reachable state the level is floor(score / 100) + 1.
C14_LevelFromScore == level = (score \div 100) + 1

\* C14 witness: a running game that has reached level 2.
C14_Witness ==
    /\ Lifecycle = "Running"
    /\ score >= 100
    /\ level = 2
    /\ Len(snake) >= 11

\* Number of cells between the head and the wall the snake is heading for.
WallDistance ==
    CASE direction = "RIGHT" -> gridSize - 1 - snake[1].x
      [] direction = "LEFT" -> snake[1].x
      [] direction = "DOWN" -> gridSize - 1 - snake[1].y
      [] direction = "UP" -> snake[1].y

\* C20: a running game whose direction stays the same eventually reaches
\* GameOver (or the direction is changed first), and every tick that leaves
\* it running in that direction brings the head one cell nearer to the wall
\* ahead, which is fewer than N cells away: it cannot tick forever.
C20_StraightRunEnds ==
    /\ \A d \in Directions :
          (Lifecycle = "Running" /\ direction = d /\ Len(snake) <= gridSize)
             ~> (Lifecycle = "GameOver" \/ direction # d)
    /\ [][(Tick /\ Lifecycle = "Running" /\ Lifecycle' = "Running" /\ ~hung')
            => /\ direction' = direction
               /\ WallDistance < gridSize
               /\ WallDistance' = WallDistance - 1
               /\ WallDistance' >= 0]_vars

\* C20 witness: a game that ran straight from its start into the wall.
C20_Witness ==
    /\ Lifecycle = "GameOver"
    /\ direction = "RIGHT"
    /\ moved = "RIGHT"
    /\ snake[1].x = gridSize - 1
    /\ snake[1].y = gridSize \div 2
    /\ \A i \in 1 .. Len(snake) : snake[i].y = gridSize \div 2

====
